---- MODULE Spec2Model ----
(***************************************************************************)
(* The POST /analyze handler of routes/property-analysis-v2.js as a state  *)
(* machine: each request runs the handler's blocks in order, one action    *)
(* per block between awaits, against the shared property_cache,            *)
(* analyzer_queries and query_errors tables, the analysis provider and the *)
(* alert webhook.                                                          *)
(***************************************************************************)
EXTENDS Integers, Sequences, FiniteSets, TLC

\* ---------------------------------------------------------------- bounds
NumReqs == 2        \* concurrent analyze requests
MaxFaults == 1      \* failures (storage, provider, webhook) in a run of concurrent requests
MaxSoloFaults == 9  \* failures in the run of a single request: every fault point of a path
MaxComps == 3       \* length up to which every comps list is tried
MaxBedrooms == 2     \* largest bedrooms of a request body
MaxGuests == 3       \* largest occupancy of a request body
NumKeys == 2         \* API keys that exist, stored or not
MantissaBits == 6    \* significand bits of the numbers of DoubleSpec (a double has 53)
NumDoubleComps == 9  \* length of the comps lists of DoubleSpec
MaxPoolCalls == 4    \* calls of getPool in a run
RandomUnits == 4    \* Math.random() returns a multiple of 1/RandomUnits

\* ------------------------------------------------------ program constants
cacheExpirationDays == 30
NoQueryId == 0      \* let queryId = null

Reqs == 1..NumReqs

\* rows older than this are not told apart
MaxAge == cacheExpirationDays + 1

\* req.body.address: "" stands for a missing or empty (falsy) address
Addresses == {"", "12 Oak St Austin"}

\* the amounts of time, in days, that pass between two steps
Delays == {cacheExpirationDays, cacheExpirationDays + 1}

\* non-2xx statuses of the provider
Statuses == {429, 500}

\* ------------------------------------------------------- provider payloads
\* What the handler reads of a parsed provider body: its truthiness, whether
\* `data` is a non-null object, the three required sub-objects, and whether
\* the values used by the calculation and the formatting have the types these
\* expect (comps an array of objects, adr.ltm a number).  `call` is the
\* request whose provider call returned the body, 0 for the JS null.
Shape(t, d, pd, ps, cm, w) ==
    [truthy |-> t, data |-> d, property_details |-> pd,
     property_statistics |-> ps, combined_market_info |-> cm, wellTyped |-> w]

ProviderShapes ==
    { Shape(FALSE, FALSE, FALSE, FALSE, FALSE, FALSE),  \* the JSON body false or 0
      Shape(TRUE, FALSE, FALSE, FALSE, FALSE, FALSE),   \* {"message": "..."}: no data object
      Shape(TRUE, TRUE, FALSE, TRUE, TRUE, TRUE),       \* no property_details
      Shape(TRUE, TRUE, TRUE, FALSE, TRUE, TRUE),       \* no property_statistics
      Shape(TRUE, TRUE, TRUE, TRUE, FALSE, TRUE),       \* no combined_market_info
      Shape(TRUE, TRUE, TRUE, TRUE, TRUE, FALSE),       \* comps holds a null element
      Shape(TRUE, TRUE, TRUE, TRUE, TRUE, TRUE) }       \* a complete body

GoodShape == Shape(TRUE, TRUE, TRUE, TRUE, TRUE, TRUE)

Body(shape, r) == [shape |-> shape, call |-> r]

Null == Body(Shape(FALSE, FALSE, FALSE, FALSE, FALSE, FALSE), 0)

\* !rawExternalResponse
Falsy(p) == ~p.shape.truthy

\* !rawExternalResponse || typeof rawExternalResponse.data !== 'object' || rawExternalResponse.data === null
MissingMainData(p) == Falsy(p) \/ ~p.shape.data

\* !externalData.property_details || !externalData.property_statistics || !externalData.combined_market_info
MissingSubDetails(p) ==
    \/ ~p.shape.property_details
    \/ ~p.shape.property_statistics
    \/ ~p.shape.combined_market_info

StructurallyValid(p) == ~MissingMainData(p) /\ ~MissingSubDetails(p)

\* Process without the sub-details check of line 328: a body with a `data`
\* object goes straight to the calculation.
ProcessSkipsSubDetails(p) ==
    IF MissingMainData(p) THEN "badData"
    ELSE IF ~p.shape.wellTyped THEN "catch"
    ELSE "updateLog"

\* lines 293-383, up to the next await: the two structural checks, then
\* calculateRevenues and the formatting, which throw on values of the wrong
\* type.  The label is the block the handler enters.
Process(p) ==
    IF MissingMainData(p) THEN "badData"
    ELSE IF MissingSubDetails(p) THEN "missingSub"
    ELSE IF ~p.shape.wellTyped THEN "catch"
    ELSE "updateLog"

\* ------------------------------------------------------------- messages
MsgAddressRequired == "Property address is required for analysis."
MsgProviderError == "External analysis service responded with an error (Status N). Please try again later."
MsgDataFormat == "Analysis data format unexpected. Please try a different address or contact support."
MsgNoDetails == "No detailed analysis data found for this property or data format unexpected."
MsgInternal == "An internal error occurred during analysis. Please try again later."
MsgCompleted == "Analysis completed (Source: S)"

ErrNotConfigured == "External API service is not configured correctly."
ErrTransport == "request to provider failed"
ErrBadJson == "invalid json response body"
ErrType == "Cannot read properties of null"

NoDetails == [message |-> "", code |-> ""]

\* the JSON body given to res.json
Result(ok, msg, st, src, p, det) ==
    [success |-> ok, message |-> msg, status |-> st, source |-> src,
     payload |-> p, errorDetails |-> det]

Ev(op, arg, result) == [op |-> op, arg |-> arg, result |-> result]

AlertOutcomes == {"delivered", "rejected", "hang"}

\* ------------------------------------------------------------- numbers
\* JS numbers as exact fractions n/d in lowest terms, d > 0; `undefined` is
\* the value of a missing field read through ?.
RECURSIVE GCD(_, _)
GCD(a, b) == IF b = 0 THEN a ELSE GCD(b, a % b)

Abs(i) == IF i < 0 THEN -i ELSE i

Rat(n, d) ==
    [t |-> "number", n |-> n \div GCD(Abs(n), d), d |-> d \div GCD(Abs(n), d)]

Num(i) == Rat(i, 1)
Undefined == [t |-> "undefined", n |-> 0, d |-> 1]

Plus(a, b) == Rat(a.n * b.d + b.n * a.d, a.d * b.d)
Times(a, b) == Rat(a.n * b.n, a.d * b.d)
Minus(a) == Rat(-a.n, a.d)
LessEq(a, b) == a.n * b.d <= b.n * a.d

\* x > 0, false for undefined
Positive(x) == x.t = "number" /\ x.n > 0

\* x || 0
OrZero(x) == IF x.t = "number" /\ x.n # 0 THEN x ELSE Num(0)

Max(a, b) == IF a >= b THEN a ELSE b
Min(a, b) == IF a <= b THEN a ELSE b

\* Math.ceil(n * p / 100) for a length n
CeilPercent(n, p) == (n * p + 99) \div 100

\* the values Math.random() takes: the lowest and the highest
Randoms == {Rat(0, 1), Rat(RandomUnits - 1, RandomUnits)}

\* ------------------------------------------------- calculateRevenues inputs
\* stats?.revenue?.ltm, stats?.cleaning_fee?.ltm, stats?.occupancy?.ltm
Revenues == {Undefined, Num(-200), Num(1000)}
CleaningFees == {Undefined, Num(100)}
Occupancies == {Undefined, Rat(-1, 2), Rat(1, 2)}

StatsInputs ==
    [revenue : Revenues, cleaning_fee : CleaningFees, occupancy : Occupancies]

\* an element of comps: null, or an object whose comp.stats?.adr?.ltm is adr
NullComp == [isNull |-> TRUE, adr |-> Undefined]
Comp(adr) == [isNull |-> FALSE, adr |-> adr]

CompValues == {NullComp, Comp(Undefined), Comp(Num(0)), Comp(Num(200)), Comp(Num(300))}

\* n comps with n distinct positive ADRs, in no particular order
LongList(n) == [i \in 1..n |-> Comp(Num(100 + 10 * ((i * 3) % n)))]

\* four comps of ADR 300, 200, 100 and 50
ExampleComps == <<Comp(Num(300)), Comp(Num(200)), Comp(Num(100)), Comp(Num(50))>>

CompsInputs ==
    UNION {[1..n -> CompValues] : n \in 0..MaxComps}
        \cup {LongList(MaxComps + 2), LongList(MaxComps + 8), ExampleComps}

\* ---------------------------------------------------- calculateRevenues
\* comps.filter(comp => comp.stats?.adr?.ltm > 0)
Filter(list) == SelectSeq(list, LAMBDA comp : Positive(comp.adr))

\* compsWithADR.sort((a, b) => b.stats.adr.ltm - a.stats.adr.ltm): stable,
\* highest first
RECURSIVE InsertByADR(_, _)
InsertByADR(sorted, c) ==
    IF sorted = <<>> THEN <<c>>
    ELSE IF LessEq(c.adr, Head(sorted).adr)
         THEN <<Head(sorted)>> \o InsertByADR(Tail(sorted), c)
         ELSE <<c>> \o sorted

RECURSIVE SortByADR(_)
SortByADR(list) ==
    IF list = <<>> THEN <<>>
    ELSE InsertByADR(SortByADR(SubSeq(list, 1, Len(list) - 1)), list[Len(list)])

\* the sort applied to the caller's list itself
CallerListSortedInPlace(list) == SortByADR(list)

\* comps.filter(...) returns a new array and compsWithADR.sort(...) sorts that
\* new array: the list the caller passed in is as it was
CallerListAfterSort(list) == list

\* Math.floor in the place of Math.ceil
ActualNumTopFloor(length, percent) == Min(Max(1, (length * percent) \div 100), length)

\* Math.min(Math.max(1, Math.ceil(length * 0.25)), length), and the same for 0.10
ActualNumTop(length, percent) == Min(Max(1, CeilPercent(length, percent)), length)

\* the typical revenue without the cleaning fee
TypicalRevenueWithoutCleaning(s) == OrZero(s.revenue)

\* marketRevenueLTM + marketCleaningLTM
TypicalRevenue(s) == Plus(OrZero(s.revenue), OrZero(s.cleaning_fee))

\* list.reduce((sum, comp) => sum + comp.stats.adr.ltm, 0)
RECURSIVE SumADR(_)
SumADR(list) == IF list = <<>> THEN Num(0) ELSE Plus(Head(list).adr, SumADR(Tail(list)))

\* list.length > 0 ? sum / list.length : 0
AvgADR(list) ==
    IF Len(list) > 0 THEN Times(SumADR(list), Rat(1, Len(list))) ELSE Num(0)

\* the top-tier revenue without the cleaning fee
TopRevenueWithoutCleaning(list, occupancyLTM, cleaningLTM) ==
    Times(Times(AvgADR(list), occupancyLTM), Num(365))

\* (avgADR * marketOccupancyLTM * 365) + marketCleaningLTM
TopRevenue(list, occupancyLTM, cleaningLTM) ==
    Plus(Times(Times(AvgADR(list), occupancyLTM), Num(365)), cleaningLTM)

\* ------------------------------------------ the arithmetic of the doubles
\* JavaScript numbers are binary floating point: each +, * and / gives the
\* exact result rounded to the nearest number of the format, ties to even.
\* Here the format has MantissaBits significand bits and a wide exponent.
RECURSIVE Pow2(_)
Pow2(k) == IF k = 0 THEN 1 ELSE 2 * Pow2(k - 1)

Exponents == -12..12

\* the integer nearest to n / d for n >= 0 and d > 0, ties to even
NearestEven(n, d) ==
    LET q == n \div d
        twice == 2 * (n % d)
    IN  IF twice > d \/ (twice = d /\ q % 2 = 1) THEN q + 1 ELSE q

\* x rounded to the format
Fl(x) ==
    IF x.n = 0 THEN Num(0)
    ELSE LET n == Abs(x.n)
             sign == IF x.n < 0 THEN -1 ELSE 1
             up(e) == IF e < 0 THEN Pow2(-e) ELSE 1
             down(e) == IF e > 0 THEN Pow2(e) ELSE 1
             \* 2^(MantissaBits-1) <= |x| / 2^e < 2^MantissaBits
             e == CHOOSE k \in Exponents :
                      /\ Pow2(MantissaBits - 1) * x.d * down(k) <= n * up(k)
                      /\ n * up(k) < Pow2(MantissaBits) * x.d * down(k)
             m == NearestEven(n * up(e), x.d * down(e))
         IN  Rat(sign * m * down(e), up(e))

\* list.reduce((sum, comp) => sum + comp.stats.adr.ltm, 0), each + rounded
RECURSIVE SumADRInDoubles(_)
SumADRInDoubles(list) ==
    IF list = <<>> THEN Num(0)
    ELSE Fl(Plus(SumADRInDoubles(SubSeq(list, 1, Len(list) - 1)), list[Len(list)].adr))

\* list.length > 0 ? sum / list.length : 0, the / rounded
AvgADRInDoubles(list) ==
    IF Len(list) > 0
    THEN Fl(Times(SumADRInDoubles(list), Rat(1, Len(list)))) ELSE Num(0)

\* (avgADR * marketOccupancyLTM * 365) + marketCleaningLTM, each operation rounded
TopRevenueInDoubles(list, occupancyLTM, cleaningLTM) ==
    Fl(Plus(Fl(Times(Fl(Times(AvgADRInDoubles(list), occupancyLTM)), Num(365))),
            cleaningLTM))

\* stats and comps whose numbers are numbers of the format
DoubleADRs == {Num(50), Num(58)}
DoubleStatsInputs ==
    [revenue : {Num(40)}, cleaning_fee : {Undefined, Num(8)},
     occupancy : {Rat(1, 2), Num(1)}]
DoubleCompsInputs == [1..NumDoubleComps -> {Comp(a) : a \in DoubleADRs}]

\* A jittered figure is kept as the value that went in and the factor it was
\* multiplied by: the figure is value * times.
Figure(value, times) == [value |-> value, times |-> times]

\* applyRandomness with a factor between -0.02 and +0.02
applyRandomnessTwoPercent(value, random) ==
    IF ~Positive(value) THEN Figure(value, Num(1))
    ELSE Figure(value, Plus(Num(1), Plus(Times(random, Rat(4, 100)), Rat(-2, 100))))

\* applyRandomness: value <= 0 returned as is, else value * (1 + randomFactor)
\* with randomFactor = (Math.random() * 0.02) - 0.01
applyRandomness(value, random) ==
    IF ~Positive(value) THEN Figure(value, Num(1))
    ELSE Figure(value, Plus(Num(1), Plus(Times(random, Rat(2, 100)), Rat(-1, 100))))

\* vary(value) with maxPercent = 1.5: zero returned as is, else
\* value + value * percent * direction, percent = (Math.random() * 1.5 * 10) / 1000,
\* direction = Math.random() > 0.5 ? 1 : -1
vary(figure, random, random2) ==
    IF figure.value.n = 0 THEN figure
    ELSE LET percent == Times(Times(random, Rat(15, 10)), Rat(10, 1000))
             signed == IF ~LessEq(random2, Rat(1, 2)) THEN percent ELSE Minus(percent)
         IN  Figure(figure.value, Times(figure.times, Plus(Num(1), signed)))

\* ------------------------------------------- the parameters of a request
\* !x for a number or undefined
Not(x) == x.t = "undefined" \/ x.n = 0

\* parseInt(x, 10) || 0: the integer part, 0 for undefined (NaN) and for 0
ParseIntOrZero(x) ==
    IF x.t = "number"
    THEN Num(IF x.n >= 0 THEN x.n \div x.d ELSE -((-x.n) \div x.d))
    ELSE Num(0)

\* the estimate taken from the bedrooms alone, whatever occupancy the body has
calculatedOccupancyFromBedsOnly(bedrooms, occupancy) ==
    IF Positive(ParseIntOrZero(bedrooms))
    THEN Times(ParseIntOrZero(bedrooms), Num(2)) ELSE Num(0)

\* const beds = parseInt(bedrooms, 10) || 0;
\* (!occupancy && beds > 0) ? beds * 2 : (parseInt(occupancy, 10) || 0)
calculatedOccupancy(bedrooms, occupancy) ==
    IF Not(occupancy) /\ Positive(ParseIntOrZero(bedrooms))
    THEN Times(ParseIntOrZero(bedrooms), Num(2))
    ELSE ParseIntOrZero(occupancy)

\* new URLSearchParams({address, ...(beds > 0 && {bedrooms: beds}), ...}):
\* a parameter that is left out is undefined here
ProviderParams(b) ==
    LET beds == ParseIntOrZero(b.bedrooms)
        estimate == calculatedOccupancy(b.bedrooms, b.occupancy)
    IN  [bedrooms |-> IF Positive(beds) THEN beds ELSE Undefined,
         bathrooms |-> IF Positive(b.bathrooms) THEN b.bathrooms ELSE Undefined,
         accommodates |-> IF Positive(estimate) THEN estimate ELSE Undefined]

NoBody == [bedrooms |-> Undefined, bathrooms |-> Undefined, occupancy |-> Undefined]
NoParams == [bedrooms |-> Undefined, bathrooms |-> Undefined, accommodates |-> Undefined]

\* req.body of the requests to the app: bedrooms and occupancy absent, zero,
\* negative, fractional or whole
BedroomInputs == {Undefined, Num(-1), Rat(5, 2)} \cup {Num(i) : i \in 0..MaxBedrooms}
OccupancyInputs == {Undefined} \cup {Num(i) : i \in 0..MaxGuests}
BathroomInputs == {Undefined, Num(0), Rat(3, 2)}
BodyInputs ==
    [bedrooms : BedroomInputs, bathrooms : BathroomInputs, occupancy : OccupancyInputs]

\* req.body of the analyze requests of the handler: no parameter, or two
\* bedrooms and one and a half bathrooms
TwoBedrooms == [bedrooms |-> Num(2), bathrooms |-> Rat(3, 2), occupancy |-> Undefined]
Bodies == {NoBody, TwoBedrooms}

\* x-api-key: 0 for a request without the header (or with an empty one)
NoKey == 0
Keys == 1..NumKeys
Paths == {"/health", "/api/proxy", "/api/v1/markets", "/api/v1/property/analyze"}
Requests == [path : Paths, key : {NoKey} \cup Keys, body : BodyInputs, apiKeyId : {NoKey}]
NoResponse == [status |-> 0, error |-> ""]

VARIABLES
    pc,                  \* position of each request in the handler
    address,             \* req.body.address
    queryId,
    rawExternalResponse,
    source,
    error,               \* message of the error caught by the outer catch
    status,              \* externalApiResponse.status of a non-2xx answer
    calls,               \* per request, the downstream calls in order
    responses,           \* per request, the bodies sent with res.json
    property_cache,      \* rows [address, raw_api_response, age], age = NOW() - last_fetched
    analyzer_queries,    \* rows [id, address, query_success]
    query_errors,        \* rows [address, error_code, status, query_id]
    NODE_ENV,            \* process.env.NODE_ENV, fixed when the process first reads it
    apiConfigured,       \* EXTERNAL_ANALYSIS_* variables all set; fixed at the first read
    faults,              \* failures injected so far
    budget,              \* failures the run may inject
    calcPc,              \* position in one run of calculateRevenues and the formatting
    stats,               \* externalData.property_statistics
    comps,               \* externalData.comps
    compsWithADR,        \* the filtered copy, sorted in place
    top25Comps,
    top10Comps,
    calculated,          \* calculatedRevenueTypical/Top25/Top10 before applyRandomness
    calculatedRevenues,  \* the object calculateRevenues returns
    formattedResponse,   \* projected_revenue_* of the response
    reqBody,             \* per request, bedrooms, bathrooms and occupancy of req.body
    params,              \* per request, the URLSearchParams sent to the provider
    appPc,               \* position of one request in the middleware chain of app.js
    req,                 \* that request: path, x-api-key header, body, apiKeyId
    ss_api_keys,         \* the keys of the rows of ss_api_keys
    keyLookup,           \* outcome of the SELECT of auth: none, found, absent, error
    res,                 \* status and error of the response sent, status 0 before
    ran,                 \* the route handler that ran: none, health, proxy, markets, property
    derived,             \* beds, calculatedOccupancy and params of the miss branch
    pool,                \* the module variable of db.js: the instance, or null
    poolsCreated,        \* how many times new Pool(...) has run
    DATABASE_URL,        \* process.env.DATABASE_URL, "" when it is not defined
    getPoolCalls         \* the calls of getPool so far: what each found and gave

vars == <<pc, address, queryId, rawExternalResponse, source, error, status, calls,
          responses, property_cache, analyzer_queries, query_errors, NODE_ENV,
          apiConfigured, faults, budget, calcPc, stats, comps, compsWithADR,
          top25Comps, top10Comps, calculated, calculatedRevenues, formattedResponse,
          reqBody, params, appPc, req, ss_api_keys, keyLookup, res, ran, derived,
          pool, poolsCreated, DATABASE_URL, getPoolCalls>>

locals == <<address, queryId, rawExternalResponse, source, error, status>>
tables == <<property_cache, analyzer_queries, query_errors>>
env == <<NODE_ENV, apiConfigured>>
calc == <<calcPc, stats, comps, compsWithADR, top25Comps, top10Comps, calculated,
          calculatedRevenues, formattedResponse>>

query == <<reqBody, params>>
app == <<appPc, req, ss_api_keys, keyLookup, res, ran, derived>>
db == <<pool, poolsCreated, DATABASE_URL, getPoolCalls>>

handler == <<pc, locals, calls, responses, tables, env, faults, budget, query>>

NoFigure == Figure(Num(0), Num(1))
NoFigures == [typical |-> NoFigure, top25 |-> NoFigure, top10 |-> NoFigure]

\* no calculation under way
CalcIdle ==
    /\ calcPc = "off"
    /\ stats = [revenue |-> Undefined, cleaning_fee |-> Undefined, occupancy |-> Undefined]
    /\ comps = <<>>
    /\ compsWithADR = <<>>
    /\ top25Comps = <<>>
    /\ top10Comps = <<>>
    /\ calculated = [typical |-> Num(0), top25 |-> Num(0), top10 |-> Num(0)]
    /\ calculatedRevenues = NoFigures
    /\ formattedResponse = NoFigures

\* the handler has not read the parameters of any request
QueryIdle ==
    /\ reqBody = [r \in Reqs |-> NoBody]
    /\ params = [r \in Reqs |-> NoParams]

\* no request in the middleware chain
AppIdle ==
    /\ appPc = "off"
    /\ req = [path |-> "/health", key |-> NoKey, body |-> NoBody, apiKeyId |-> NoKey]
    /\ ss_api_keys = {}
    /\ keyLookup = "none"
    /\ res = NoResponse
    /\ ran = "none"
    /\ derived = [beds |-> Num(0), calculatedOccupancy |-> Num(0), params |-> NoParams]

\* let pool = null, and no call of getPool made
NoPool == [id |-> 0, connectionString |-> ""]
DbIdle ==
    /\ pool = NoPool
    /\ poolsCreated = 0
    /\ DATABASE_URL = ""
    /\ getPoolCalls = <<>>

Init ==
    /\ pc = [r \in Reqs |-> "idle"]
    /\ address = [r \in Reqs |-> ""]
    /\ queryId = [r \in Reqs |-> NoQueryId]
    /\ rawExternalResponse = [r \in Reqs |-> Null]
    /\ source = [r \in Reqs |-> "unknown"]
    /\ error = [r \in Reqs |-> ""]
    /\ status = [r \in Reqs |-> 0]
    /\ calls = [r \in Reqs |-> <<>>]
    /\ responses = [r \in Reqs |-> <<>>]
    /\ property_cache = {}
    /\ analyzer_queries = {}
    /\ query_errors = {}
    /\ NODE_ENV = "unread"
    /\ apiConfigured = "unread"
    /\ faults = 0
    /\ budget = MaxFaults
    /\ CalcIdle
    /\ QueryIdle
    /\ AppIdle
    /\ DbIdle

\* ------------------------------------------------------------- helpers
Goto(r, label) == pc' = [pc EXCEPT ![r] = label]
Log(r, events) == calls' = [calls EXCEPT ![r] = @ \o events]
Send(r, body) == responses' = [responses EXCEPT ![r] = Append(@, body)]
Fault(n) == faults + n <= budget /\ faults' = faults + n /\ UNCHANGED budget
Cost(ok) == IF ok THEN 0 ELSE 1
\* the error the outer catch receives when request r enters it from Process
Thrown(r) ==
    error' = [error EXCEPT ![r] = IF pc'[r] = "catch" THEN ErrType ELSE @]


\* await sendAlertToN8n({subject, body}): the webhook answers OK, answers non-OK
\* or throws (both swallowed, returning false), or never answers.
Alert(subject, o) == Ev("alert", subject, o)

\* INSERT INTO query_errors ... inside its own try/catch
ErrorRow(r, code, st) ==
    [address |-> address[r], error_code |-> code, status |-> st, query_id |-> queryId[r]]

\* An error block: alert, error row (failure swallowed), one response, return.
ErrorBlock(r, subject, code, st, body, nodeEnv) ==
    \E o \in AlertOutcomes, logged \in BOOLEAN :
        /\ Fault(Cost(o = "delivered") + Cost(logged))
        /\ IF o = "hang"
           THEN /\ logged
                /\ Goto(r, "blocked")
                /\ Log(r, <<Alert(subject, o)>>)
                /\ UNCHANGED <<responses, query_errors>>
           ELSE /\ Goto(r, "done")
                /\ Log(r, <<Alert(subject, o),
                           Ev("insert query_errors", code, IF logged THEN "ok" ELSE "failed"),
                           Ev("respond", "", "")>>)
                /\ query_errors' = IF logged
                                   THEN query_errors \cup {ErrorRow(r, code, st)}
                                   ELSE query_errors
                /\ Send(r, body)
        /\ NODE_ENV' = IF o = "hang" THEN NODE_ENV ELSE nodeEnv
        /\ UNCHANGED <<locals, property_cache, analyzer_queries, apiConfigured>>

\* sendAlertToN8n without its try/catch: a rejected alert throws to the outer
\* catch of the handler.
AlertOrThrow(r, subject, next) ==
    \E o \in AlertOutcomes :
        /\ Fault(Cost(o = "delivered"))
        /\ Goto(r, CASE o = "hang" -> "blocked" [] o = "rejected" -> "catch"
                     [] OTHER -> next)
        /\ Log(r, <<Alert(subject, o)>>)

\* A catch block that only alerts and falls through to `next`.
AlertAndContinue(r, subject, next) ==
    \E o \in AlertOutcomes :
        /\ Fault(Cost(o = "delivered"))
        /\ Goto(r, IF o = "hang" THEN "blocked" ELSE next)
        /\ Log(r, <<Alert(subject, o)>>)

\* ------------------------------------------------------------- actions
\* Receive without the address check: every request goes on to the query log.
ReceiveWithoutAddressCheck(r) ==
    /\ pc[r] = "idle"
    /\ \A q \in Reqs : q < r => pc[q] # "idle"
    /\ \E a \in Addresses : address' = [address EXCEPT ![r] = a]
    /\ Goto(r, "logQuery")
    /\ UNCHANGED <<queryId, rawExternalResponse, source, error, status, calls, responses,
                   tables, env, faults, budget>>
    /\ UNCHANGED <<calc, app, query, db>>

\* lines 71-86: destructure the body, reject a falsy address
Receive(r) ==
    /\ pc[r] = "idle"
    /\ \A q \in Reqs : q < r => pc[q] # "idle"     \* requests are numbered as they arrive
    /\ \E a \in Addresses :
        /\ address' = [address EXCEPT ![r] = a]
        /\ IF a = ""
           THEN /\ Send(r, Result(FALSE, MsgAddressRequired, 0, "", Null, NoDetails))
                /\ Log(r, <<Ev("respond", "", "")>>)
                /\ Goto(r, "done")
           ELSE /\ Goto(r, "logQuery")
                /\ UNCHANGED <<responses, calls>>
    /\ UNCHANGED <<queryId, rawExternalResponse, source, error, status, tables, env,
                   faults, budget>>
    /\ UNCHANGED <<calc, app, query, db>>

\* The initial INSERT with query_success = TRUE in the place of FALSE.
LogInitialQueryAsSuccess(r) ==
    /\ pc[r] = "logQuery"
    /\ \E ok \in BOOLEAN :
        /\ Fault(Cost(ok))
        /\ IF ok
           THEN /\ analyzer_queries' = analyzer_queries \cup
                      {[id |-> r, address |-> address[r], query_success |-> TRUE]}
                /\ queryId' = [queryId EXCEPT ![r] = r]
                /\ Goto(r, "checkCache")
           ELSE /\ Goto(r, "logQueryCatch")
                /\ UNCHANGED <<analyzer_queries, queryId>>
        /\ Log(r, <<Ev("insert analyzer_queries", "", IF ok THEN "ok" ELSE "failed")>>)
    /\ UNCHANGED <<address, rawExternalResponse, source, error, status, responses,
                   property_cache, query_errors, env>>
    /\ UNCHANGED <<calc, app, query, db>>

\* lines 90-100: INSERT INTO analyzer_queries ... RETURNING id
LogInitialQuery(r) ==
    /\ pc[r] = "logQuery"
    /\ \E ok \in BOOLEAN :
        /\ Fault(Cost(ok))
        /\ IF ok
           THEN /\ analyzer_queries' = analyzer_queries \cup
                      {[id |-> r, address |-> address[r], query_success |-> FALSE]}
                /\ queryId' = [queryId EXCEPT ![r] = r]
                /\ Goto(r, "checkCache")
           ELSE /\ Goto(r, "logQueryCatch")
                /\ UNCHANGED <<analyzer_queries, queryId>>
        /\ Log(r, <<Ev("insert analyzer_queries", "", IF ok THEN "ok" ELSE "failed")>>)
    /\ UNCHANGED <<address, rawExternalResponse, source, error, status, responses,
                   property_cache, query_errors, env>>
    /\ UNCHANGED <<calc, app, query, db>>

\* LogQueryCatch that alerts and rethrows to the outer catch.
LogQueryCatchRethrows(r) ==
    /\ pc[r] = "logQueryCatch"
    /\ AlertAndContinue(r, "DB Logging Error", "catch")
    /\ error' = [error EXCEPT ![r] = IF pc'[r] = "blocked" THEN @ ELSE "query log failed"]
    /\ UNCHANGED <<address, queryId, rawExternalResponse, source, status, responses,
                   tables, env>>
    /\ UNCHANGED <<calc, app, query, db>>

\* lines 101-112
LogQueryCatch(r) ==
    /\ pc[r] = "logQueryCatch"
    /\ AlertAndContinue(r, "DB Logging Error", "checkCache")
    /\ UNCHANGED <<locals, responses, tables, env>>
    /\ UNCHANGED <<calc, app, query, db>>

\* the rows of SELECT ... WHERE address = $1 AND last_fetched >= NOW() - INTERVAL '30 days',
\* that is NOW() - last_fetched <= 30 days
FreshRows(a) ==
    {row \in property_cache : row.address = a /\ row.age <= cacheExpirationDays}

\* NOW() - last_fetched of the row stored for address a when the SELECT runs,
\* as the lookup's log shows it; "none" when the address has no row
StoredAge(a) ==
    IF \E row \in property_cache : row.address = a
    THEN ToString((CHOOSE row \in property_cache : row.address = a).age)
    ELSE "none"

\* a cache keyed by the address and by the bedrooms of the request
CacheKeyWithBedrooms(a, b) == IF b.bedrooms = Undefined THEN a ELSE a \o "&bedrooms"

\* [address]: the one value bound to $1 by the SELECT, and the conflict target
\* of the INSERT; nothing else of the body b reaches either statement
CacheKey(a, b) == a

\* CheckCache whose hit also sets last_fetched = NOW() on the row it read.
CheckCacheRefreshes(r) ==
    /\ pc[r] = "checkCache"
    /\ FreshRows(address[r]) # {}
    /\ \E row \in FreshRows(address[r]) :
        /\ rawExternalResponse' =
               [rawExternalResponse EXCEPT ![r] = row.raw_api_response]
        /\ property_cache' = (property_cache \ {row}) \cup {[row EXCEPT !.age = 0]}
        /\ Goto(r, IF Falsy(row.raw_api_response)
                    THEN "fetch" ELSE Process(row.raw_api_response))
    /\ source' = [source EXCEPT ![r] = "cache"]
    /\ Thrown(r)
    /\ Log(r, <<Ev("select property_cache", StoredAge(address[r]), "hit")>>)
    /\ UNCHANGED <<address, queryId, status, responses, analyzer_queries, query_errors,
                   env, faults, budget>>
    /\ UNCHANGED <<calc, app, query, db>>

\* lines 125-139 and the branch of line 158; on a hit, lines 293-383
CheckCache(r) ==
    /\ pc[r] = "checkCache"
    /\ \E ok \in BOOLEAN :
        /\ Fault(Cost(ok))
        /\ IF ~ok
           THEN /\ Goto(r, "cacheCheckCatch")
                /\ Log(r, <<Ev("select property_cache", "", "failed")>>)
                /\ UNCHANGED <<rawExternalResponse, source, error>>
           ELSE IF FreshRows(CacheKey(address[r], reqBody[r])) # {}
           THEN \E row \in FreshRows(CacheKey(address[r], reqBody[r])) :
                /\ rawExternalResponse' =
                       [rawExternalResponse EXCEPT ![r] = row.raw_api_response]
                /\ source' = [source EXCEPT ![r] = "cache"]
                /\ Goto(r, IF Falsy(row.raw_api_response)
                            THEN "fetch" ELSE Process(row.raw_api_response))
                /\ Thrown(r)
                /\ Log(r, <<Ev("select property_cache", StoredAge(address[r]), "hit")>>)
           ELSE /\ source' = [source EXCEPT ![r] = "api"]
                /\ Goto(r, "fetch")
                /\ Log(r, <<Ev("select property_cache", StoredAge(address[r]), "miss")>>)
                /\ UNCHANGED <<rawExternalResponse, error>>
    /\ UNCHANGED <<address, queryId, status, responses, tables, env>>
    /\ UNCHANGED <<calc, app, query, db>>

\* CacheCheckCatch that alerts and rethrows to the outer catch.
CacheCheckCatchRethrows(r) ==
    /\ pc[r] = "cacheCheckCatch"
    /\ AlertAndContinue(r, "Cache Check Error", "catch")
    /\ error' = [error EXCEPT ![r] = IF pc'[r] = "blocked" THEN @ ELSE "cache check failed"]
    /\ UNCHANGED <<address, queryId, rawExternalResponse, source, status, responses,
                   tables, env>>
    /\ UNCHANGED <<calc, app, query, db>>

\* CacheCheckCatch that sets the source and sends no alert.
CacheCheckCatchSilent(r) ==
    /\ pc[r] = "cacheCheckCatch"
    /\ Goto(r, "fetch")
    /\ source' = [source EXCEPT ![r] = "api_due_to_cache_error"]
    /\ UNCHANGED <<address, queryId, rawExternalResponse, error, status, calls, responses,
                   tables, env, faults, budget>>
    /\ UNCHANGED <<calc, app, query, db>>

\* lines 141-151
CacheCheckCatch(r) ==
    /\ pc[r] = "cacheCheckCatch"
    /\ AlertAndContinue(r, "Cache Check Error", "fetch")
    /\ source' = [source EXCEPT ![r] =
                     IF pc'[r] = "blocked" THEN @ ELSE "api_due_to_cache_error"]
    /\ UNCHANGED <<address, queryId, rawExternalResponse, error, status, responses,
                   tables, env>>
    /\ UNCHANGED <<calc, app, query, db>>

\* lines 158-215 and 250-252: the configuration check, the fetch, response.json()
CallProvider(r) ==
    /\ pc[r] = "fetch"
    /\ \E configured \in {"yes", "no"} :
        /\ apiConfigured \in {"unread", configured}
        /\ apiConfigured' = configured
        /\ IF configured = "no"
           THEN /\ Fault(Cost(apiConfigured = "no"))
                /\ error' = [error EXCEPT ![r] = ErrNotConfigured]
                /\ Goto(r, "catch")
                /\ UNCHANGED <<rawExternalResponse, source, status, calls>>
           ELSE \/ /\ Fault(1)          \* fetch rejects: transport failure
                   /\ error' = [error EXCEPT ![r] = ErrTransport]
                   /\ Goto(r, "catch")
                   /\ Log(r, <<Ev("fetch provider", "", "threw")>>)
                   /\ UNCHANGED <<rawExternalResponse, source, status>>
                \/ /\ Fault(1)          \* the provider never answers: no timeout is set
                   /\ Goto(r, "blocked")
                   /\ Log(r, <<Ev("fetch provider", "", "hang")>>)
                   /\ UNCHANGED <<rawExternalResponse, source, status, error>>
                \/ \E s \in Statuses :  \* !externalApiResponse.ok
                   /\ Fault(1)
                   /\ status' = [status EXCEPT ![r] = s]
                   /\ Goto(r, "fetchError")
                   /\ Log(r, <<Ev("fetch provider", "", "non2xx")>>)
                   /\ UNCHANGED <<rawExternalResponse, source, error>>
                \/ /\ Fault(1)          \* 2xx whose body is not JSON: json() rejects
                   /\ error' = [error EXCEPT ![r] = ErrBadJson]
                   /\ Goto(r, "catch")
                   /\ Log(r, <<Ev("fetch provider", "", "badjson")>>)
                   /\ UNCHANGED <<rawExternalResponse, source, status>>
                \/ \E shape \in ProviderShapes :
                   /\ Fault(Cost(shape = GoodShape))
                   /\ rawExternalResponse' =
                          [rawExternalResponse EXCEPT ![r] = Body(shape, r)]
                   /\ source' = [source EXCEPT ![r] = "api"]
                   /\ Goto(r, "saveCache")
                   /\ Log(r, <<Ev("fetch provider", "", "ok")>>)
                   /\ UNCHANGED <<status, error>>
    /\ params' = [params EXCEPT ![r] = ProviderParams(reqBody[r])]
    /\ UNCHANGED <<address, queryId, responses, tables, NODE_ENV>>
    /\ UNCHANGED <<calc, app, reqBody, db>>

\* lines 218-248
ProviderErrorBlock(r) ==
    /\ pc[r] = "fetchError"
    /\ ErrorBlock(r, "External API Error", "EXTERNAL_FETCH_ERROR", status[r],
                  Result(FALSE, MsgProviderError, status[r], "", Null, NoDetails), NODE_ENV)
    /\ UNCHANGED <<calc, app, query, db>>

\* An upsert that is not one statement: over an existing row it replaces the
\* body key by key and leaves property_details of the old body in place.
UpsertKeyByKey(rows, a, p) ==
    {row \in rows : row.address # a}
        \cup {[address |-> a,
               raw_api_response |->
                   IF \E row \in rows : row.address = a
                   THEN Body([p.shape EXCEPT !.property_details =
                                 (CHOOSE row \in rows : row.address = a)
                                     .raw_api_response.shape.property_details],
                             p.call)
                   ELSE p,
               age |-> 0]}

\* The INSERT without its ON CONFLICT clause on a table that lets it through:
\* the new row is added beside the old one.
InsertBeside(rows, a, p) ==
    rows \cup {[address |-> a, raw_api_response |-> p, age |-> 0]}

\* INSERT INTO property_cache ... ON CONFLICT (address) DO UPDATE
\* with last_fetched = NOW(): the row's age is 0
Upsert(rows, a, p) ==
    {row \in rows : row.address # a}
        \cup {[address |-> a, raw_api_response |-> p, age |-> 0]}

\* lines 258-271, then lines 293-383
SaveToCache(r) ==
    /\ pc[r] = "saveCache"
    /\ \E ok \in BOOLEAN :
        /\ Fault(Cost(ok))
        /\ property_cache' = IF ok
                             THEN Upsert(property_cache,
                                         CacheKey(address[r], reqBody[r]),
                                         rawExternalResponse[r])
                             ELSE property_cache
        /\ Goto(r, IF ok THEN Process(rawExternalResponse[r]) ELSE "cacheSaveCatch")
        /\ Thrown(r)
        /\ Log(r, <<Ev("upsert property_cache", "", IF ok THEN "ok" ELSE "failed")>>)
    /\ UNCHANGED <<address, queryId, rawExternalResponse, source, status, responses,
                   analyzer_queries, query_errors, env>>
    /\ UNCHANGED <<calc, app, query, db>>

\* CacheSaveCatch that alerts and rethrows to the outer catch.
CacheSaveCatchRethrows(r) ==
    /\ pc[r] = "cacheSaveCatch"
    /\ AlertAndContinue(r, "Cache Save Error", "catch")
    /\ error' = [error EXCEPT ![r] = IF pc'[r] = "blocked" THEN @ ELSE "cache save failed"]
    /\ UNCHANGED <<address, queryId, rawExternalResponse, source, status, responses,
                   tables, env>>
    /\ UNCHANGED <<calc, app, query, db>>

\* lines 272-280, then lines 293-383
CacheSaveCatch(r) ==
    /\ pc[r] = "cacheSaveCatch"
    /\ AlertAndContinue(r, "Cache Save Error", Process(rawExternalResponse[r]))
    /\ Thrown(r)
    /\ UNCHANGED <<address, queryId, rawExternalResponse, source, status, responses,
                   tables, env>>
    /\ UNCHANGED <<calc, app, query, db>>

\* lines 294-319
BadDataBlock(r) ==
    /\ pc[r] = "badData"
    /\ ErrorBlock(r, "Unexpected External Data", "EXTERNAL_BAD_DATA", 0,
                  Result(FALSE, MsgDataFormat, 0, "", Null, NoDetails), NODE_ENV)
    /\ UNCHANGED <<calc, app, query, db>>

\* lines 329-353
MissingSubBlock(r) ==
    /\ pc[r] = "missingSub"
    /\ ErrorBlock(r, "Unexpected External Data", "EXTERNAL_MISSING_SUBDATA", 0,
                  Result(FALSE, MsgNoDetails, 0, "", Null, NoDetails), NODE_ENV)
    /\ UNCHANGED <<calc, app, query, db>>

\* The response sent first and the UPDATE left without its own try/catch: a
\* failed UPDATE reaches the outer catch after the response has gone out.
RespondThenUpdateLog(r) ==
    /\ pc[r] = "updateLog"
    /\ \E ok \in BOOLEAN :
        /\ Fault(Cost(ok))
        /\ queryId[r] = NoQueryId => ok
        /\ Log(r, <<Ev("respond", "", ""),
                    Ev("update analyzer_queries", "", IF ok THEN "ok" ELSE "failed")>>)
        /\ Goto(r, IF ok THEN "done" ELSE "catch")
        /\ error' = [error EXCEPT ![r] = IF ok THEN @ ELSE "update failed"]
    /\ Send(r, Result(TRUE, MsgCompleted, 0, source[r], rawExternalResponse[r], NoDetails))
    /\ UNCHANGED <<address, queryId, rawExternalResponse, source, status, tables, env>>
    /\ UNCHANGED <<calc, app, query, db>>

\* lines 391-421: UPDATE analyzer_queries SET query_success = TRUE, then res.json
UpdateLogAndRespond(r) ==
    /\ pc[r] = "updateLog"
    /\ \E ok \in BOOLEAN :
        /\ Fault(Cost(ok))
        /\ IF queryId[r] = NoQueryId
           THEN /\ ok
                /\ Log(r, <<Ev("respond", "", "")>>)
                /\ UNCHANGED analyzer_queries
           ELSE /\ Log(r, <<Ev("update analyzer_queries", "", IF ok THEN "ok" ELSE "failed"),
                           Ev("respond", "", "")>>)
                /\ analyzer_queries' =
                       IF ok
                       THEN {IF row.id = queryId[r]
                             THEN [row EXCEPT !.query_success = TRUE] ELSE row :
                             row \in analyzer_queries}
                       ELSE analyzer_queries
    /\ Send(r, Result(TRUE, MsgCompleted, 0, source[r], rawExternalResponse[r], NoDetails))
    /\ Goto(r, "done")
    /\ UNCHANGED <<locals, property_cache, query_errors, env>>
    /\ UNCHANGED <<calc, app, query, db>>

\* errorDetails: process.env.NODE_ENV !== 'production' ? {message, code} : undefined
ErrorDetails(r, nodeEnv) ==
    IF nodeEnv # "production"
    THEN [message |-> error[r], code |-> "INTERNAL_ERROR"]
    ELSE NoDetails

\* An outer catch that calls the provider again instead of failing the request.
InternalErrorCatchRetries(r) ==
    /\ pc[r] = "catch"
    /\ Goto(r, "fetch")
    /\ UNCHANGED <<locals, calls, responses, tables, env, faults, budget>>
    /\ UNCHANGED <<calc, app, query, db>>

\* lines 424-487
InternalErrorCatch(r) ==
    /\ pc[r] = "catch"
    /\ \E nodeEnv \in {"production", "development"} :
        /\ NODE_ENV \in {"unread", nodeEnv}
        /\ ErrorBlock(r, "Internal API Error", "INTERNAL_ERROR", 0,
                      Result(FALSE, MsgInternal, 0, "", Null, ErrorDetails(r, nodeEnv)),
                      nodeEnv)
    /\ UNCHANGED <<calc, app, query, db>>

\* time passes at the storage: every row grows older by the same delay
Tick ==
    /\ \E d \in Delays :
        /\ \A row \in property_cache : row.age + d <= MaxAge
        /\ property_cache' = {[row EXCEPT !.age = @ + d] : row \in property_cache}
    /\ property_cache' # property_cache
    /\ UNCHANGED <<pc, locals, calls, responses, analyzer_queries, query_errors, env,
                   faults, budget>>
    /\ UNCHANGED <<calc, app, query, db>>

Step(r) ==
    \/ Receive(r)
    \/ LogInitialQuery(r)
    \/ LogQueryCatch(r)
    \/ CheckCache(r)
    \/ CacheCheckCatch(r)
    \/ CallProvider(r)
    \/ ProviderErrorBlock(r)
    \/ SaveToCache(r)
    \/ CacheSaveCatch(r)
    \/ BadDataBlock(r)
    \/ MissingSubBlock(r)
    \/ UpdateLogAndRespond(r)
    \/ InternalErrorCatch(r)

Next == (\E r \in Reqs : Step(r)) \/ Tick

Spec == Init /\ [][Next]_vars

\* ------------------------------------------------ one request, any failures
\* The call that stored a row before the request under study arrived.
PriorCall == NumReqs + 1

\* What earlier requests for the address may have left in property_cache: no
\* row, or one row holding any body the provider returned, of any age.
PriorCaches ==
    {{}} \cup
    {{[address |-> a, raw_api_response |-> Body(shape, PriorCall), age |-> t]} :
        a \in Addresses \ {""}, shape \in ProviderShapes,
        t \in {0, cacheExpirationDays, MaxAge}}

SoloInit ==
    /\ pc = [r \in Reqs |-> "idle"]
    /\ address = [r \in Reqs |-> ""]
    /\ queryId = [r \in Reqs |-> NoQueryId]
    /\ rawExternalResponse = [r \in Reqs |-> Null]
    /\ source = [r \in Reqs |-> "unknown"]
    /\ error = [r \in Reqs |-> ""]
    /\ status = [r \in Reqs |-> 0]
    /\ calls = [r \in Reqs |-> <<>>]
    /\ responses = [r \in Reqs |-> <<>>]
    /\ property_cache \in PriorCaches
    /\ analyzer_queries = {}
    /\ query_errors = {}
    /\ NODE_ENV = "unread"
    /\ apiConfigured = "unread"
    /\ faults = 0
    /\ budget = MaxSoloFaults
    /\ CalcIdle
    /\ \E b \in Bodies : reqBody = [r \in Reqs |-> IF r = 1 THEN b ELSE NoBody]
    /\ params = [r \in Reqs |-> NoParams]
    /\ AppIdle
    /\ DbIdle

SoloNext == Step(1) \/ Tick

SoloSpec == SoloInit /\ [][SoloNext]_vars


\* ------------------------------------- calculateRevenues and the formatting
\* analysisCalculations.js lines 13-78: the figures before applyRandomness.
\* comp.stats on a null element of comps throws a TypeError in the filter.
CalculateRevenues ==
    /\ calcPc = "called"
    /\ LET marketCleaningLTM == OrZero(stats.cleaning_fee)
           marketOccupancyLTM == OrZero(stats.occupancy)
           calculatedRevenueTypical == TypicalRevenue(stats)
           filtered == Filter(comps)
           sorted == SortByADR(filtered)
           top25 == SubSeq(sorted, 1, ActualNumTop(Len(sorted), 25))
           top10 == SubSeq(sorted, 1, ActualNumTop(Len(sorted), 10))
       IN  IF \E i \in 1..Len(comps) : comps[i].isNull
           THEN /\ calcPc' = "threw"
                /\ calculated' = [typical |-> calculatedRevenueTypical,
                                  top25 |-> Num(0), top10 |-> Num(0)]
                /\ UNCHANGED <<comps, compsWithADR, top25Comps, top10Comps>>
           ELSE IF Len(filtered) > 0 /\ Positive(marketOccupancyLTM)
           THEN /\ calcPc' = "jitter"
                /\ comps' = CallerListAfterSort(comps)
                /\ compsWithADR' = sorted
                /\ top25Comps' = top25
                /\ top10Comps' = top10
                /\ calculated' =
                       [typical |-> calculatedRevenueTypical,
                        top25 |-> TopRevenue(top25, marketOccupancyLTM, marketCleaningLTM),
                        top10 |-> TopRevenue(top10, marketOccupancyLTM, marketCleaningLTM)]
           ELSE /\ calcPc' = "jitter"
                /\ compsWithADR' = filtered
                /\ calculated' = [typical |-> calculatedRevenueTypical,
                                  top25 |-> Num(0), top10 |-> Num(0)]
                /\ UNCHANGED <<comps, top25Comps, top10Comps>>
    /\ UNCHANGED <<stats, calculatedRevenues, formattedResponse, handler, app, db>>

\* analysisCalculations.js lines 83-106: one Math.random() per figure, then return
ApplyRandomness ==
    /\ calcPc = "jitter"
    /\ \E r1, r2, r3 \in Randoms :
        calculatedRevenues' =
            [typical |-> applyRandomness(calculated.typical, r1),
             top25 |-> applyRandomness(calculated.top25, r2),
             top10 |-> applyRandomness(calculated.top10, r3)]
    /\ calcPc' = "returned"
    /\ UNCHANGED <<stats, comps, compsWithADR, top25Comps, top10Comps, calculated,
                   formattedResponse, handler, app, db>>

\* property-analysis-v2.js lines 365-383: projected_revenue_* = vary(...)
FormatResponse ==
    /\ calcPc = "returned"
    /\ \E p1, d1, p2, d2, p3, d3 \in Randoms :
        formattedResponse' =
            [typical |-> vary(calculatedRevenues.typical, p1, d1),
             top25 |-> vary(calculatedRevenues.top25, p2, d2),
             top10 |-> vary(calculatedRevenues.top10, p3, d3)]
    /\ calcPc' = "formatted"
    /\ UNCHANGED <<stats, comps, compsWithADR, top25Comps, top10Comps, calculated,
                   calculatedRevenues, handler, app, db>>

\* one run of the calculation on any stats and comps
CalcInit ==
    /\ pc = [r \in Reqs |-> "idle"]
    /\ address = [r \in Reqs |-> ""]
    /\ queryId = [r \in Reqs |-> NoQueryId]
    /\ rawExternalResponse = [r \in Reqs |-> Null]
    /\ source = [r \in Reqs |-> "unknown"]
    /\ error = [r \in Reqs |-> ""]
    /\ status = [r \in Reqs |-> 0]
    /\ calls = [r \in Reqs |-> <<>>]
    /\ responses = [r \in Reqs |-> <<>>]
    /\ property_cache = {}
    /\ analyzer_queries = {}
    /\ query_errors = {}
    /\ NODE_ENV = "unread"
    /\ apiConfigured = "unread"
    /\ faults = 0
    /\ budget = 0
    /\ calcPc = "called"
    /\ stats \in StatsInputs
    /\ comps \in CompsInputs
    /\ compsWithADR = <<>>
    /\ top25Comps = <<>>
    /\ top10Comps = <<>>
    /\ calculated = [typical |-> Num(0), top25 |-> Num(0), top10 |-> Num(0)]
    /\ calculatedRevenues = NoFigures
    /\ formattedResponse = NoFigures
    /\ QueryIdle
    /\ AppIdle
    /\ DbIdle

CalcNext == CalculateRevenues \/ ApplyRandomness \/ FormatResponse

CalcSpec == CalcInit /\ [][CalcNext]_vars

\* ----------------------------- calculateRevenues in the arithmetic of doubles
\* analysisCalculations.js lines 13-78 with every operation rounded
CalculateRevenuesInDoubles ==
    /\ calcPc = "calledInDoubles"
    /\ LET marketCleaningLTM == OrZero(stats.cleaning_fee)
           marketOccupancyLTM == OrZero(stats.occupancy)
           calculatedRevenueTypical == Fl(Plus(OrZero(stats.revenue), marketCleaningLTM))
           filtered == Filter(comps)
           sorted == SortByADR(filtered)
           top25 == SubSeq(sorted, 1, ActualNumTop(Len(sorted), 25))
           top10 == SubSeq(sorted, 1, ActualNumTop(Len(sorted), 10))
       IN  IF \E i \in 1..Len(comps) : comps[i].isNull
           THEN /\ calcPc' = "threw"
                /\ calculated' = [typical |-> calculatedRevenueTypical,
                                  top25 |-> Num(0), top10 |-> Num(0)]
                /\ UNCHANGED <<compsWithADR, top25Comps, top10Comps>>
           ELSE IF Len(filtered) > 0 /\ Positive(marketOccupancyLTM)
           THEN /\ calcPc' = "jitter"
                /\ compsWithADR' = sorted
                /\ top25Comps' = top25
                /\ top10Comps' = top10
                /\ calculated' =
                       [typical |-> calculatedRevenueTypical,
                        top25 |-> TopRevenueInDoubles(top25, marketOccupancyLTM,
                                                      marketCleaningLTM),
                        top10 |-> TopRevenueInDoubles(top10, marketOccupancyLTM,
                                                      marketCleaningLTM)]
           ELSE /\ calcPc' = "jitter"
                /\ compsWithADR' = filtered
                /\ calculated' = [typical |-> calculatedRevenueTypical,
                                  top25 |-> Num(0), top10 |-> Num(0)]
                /\ UNCHANGED <<top25Comps, top10Comps>>
    /\ UNCHANGED <<stats, comps, calculatedRevenues, formattedResponse, handler, app, db>>

\* one run of the calculation on stats and comps of the format
DoubleInit ==
    /\ pc = [r \in Reqs |-> "idle"]
    /\ address = [r \in Reqs |-> ""]
    /\ queryId = [r \in Reqs |-> NoQueryId]
    /\ rawExternalResponse = [r \in Reqs |-> Null]
    /\ source = [r \in Reqs |-> "unknown"]
    /\ error = [r \in Reqs |-> ""]
    /\ status = [r \in Reqs |-> 0]
    /\ calls = [r \in Reqs |-> <<>>]
    /\ responses = [r \in Reqs |-> <<>>]
    /\ property_cache = {}
    /\ analyzer_queries = {}
    /\ query_errors = {}
    /\ NODE_ENV = "unread"
    /\ apiConfigured = "unread"
    /\ faults = 0
    /\ budget = 0
    /\ calcPc = "calledInDoubles"
    /\ stats \in DoubleStatsInputs
    /\ comps \in DoubleCompsInputs
    /\ compsWithADR = <<>>
    /\ top25Comps = <<>>
    /\ top10Comps = <<>>
    /\ calculated = [typical |-> Num(0), top25 |-> Num(0), top10 |-> Num(0)]
    /\ calculatedRevenues = NoFigures
    /\ formattedResponse = NoFigures
    /\ QueryIdle
    /\ AppIdle
    /\ DbIdle

DoubleNext == CalculateRevenuesInDoubles

DoubleSpec == DoubleInit /\ [][DoubleNext]_vars

\* ------------------------------------ one request through the chain of app.js
\* every row of the key store, whatever the key asked for
KeyRowsOfAnyKey(key) == ss_api_keys

\* SELECT id FROM ss_api_keys WHERE key = $1
KeyRows(key) == {k \in ss_api_keys : k = key}

\* auth.js lines 3-34; the SELECT may throw (pool or connection failure)
Auth ==
    /\ appPc = "arrived"
    /\ IF req.path = "/health"
       THEN /\ appPc' = "next"
            /\ UNCHANGED <<req, keyLookup, res>>
       ELSE IF req.key = NoKey
       THEN /\ res' = [status |-> 401, error |-> "API key required"]
            /\ appPc' = "answered"
            /\ UNCHANGED <<req, keyLookup>>
       ELSE \E thrown \in BOOLEAN :
            IF thrown
            THEN /\ keyLookup' = "error"
                 /\ res' = [status |-> 500, error |-> "Auth error"]
                 /\ appPc' = "answered"
                 /\ UNCHANGED req
            ELSE IF KeyRows(req.key) = {}
            THEN /\ keyLookup' = "absent"
                 /\ res' = [status |-> 403, error |-> "Invalid API key"]
                 /\ appPc' = "answered"
                 /\ UNCHANGED req
            ELSE /\ keyLookup' = "found"
                 /\ req' = [req EXCEPT !.apiKeyId = CHOOSE k \in KeyRows(req.key) : TRUE]
                 /\ appPc' = "next"
                 /\ UNCHANGED res
    /\ UNCHANGED <<ss_api_keys, ran, derived, handler, calc, db>>

\* app.js lines 22-31: the routers in the order they are mounted
Route ==
    /\ appPc = "next"
    /\ IF req.path = "/health"
       THEN /\ ran' = "health"
            /\ res' = [status |-> 200, error |-> ""]
            /\ appPc' = "answered"
       ELSE /\ ran' = CASE req.path = "/api/proxy" -> "proxy"
                        [] req.path = "/api/v1/markets" -> "markets"
                        [] OTHER -> "property"
            /\ appPc' = "handler"
            /\ UNCHANGED res
    /\ UNCHANGED <<req, ss_api_keys, keyLookup, derived, handler, calc, db>>

\* property-analysis-v2.js lines 163-188 (property-analysis.js lines 81-91):
\* the miss branch of the analyze handler prepares the provider's parameters
DeriveParams ==
    /\ appPc = "handler"
    /\ ran = "property"
    /\ derived' = [beds |-> ParseIntOrZero(req.body.bedrooms),
                   calculatedOccupancy |->
                       calculatedOccupancy(req.body.bedrooms, req.body.occupancy),
                   params |-> ProviderParams(req.body)]
    /\ appPc' = "fetching"
    /\ UNCHANGED <<req, ss_api_keys, keyLookup, res, ran, handler, calc, db>>

\* one request of any path, key and body against any key store
AppInit ==
    /\ pc = [r \in Reqs |-> "idle"]
    /\ address = [r \in Reqs |-> ""]
    /\ queryId = [r \in Reqs |-> NoQueryId]
    /\ rawExternalResponse = [r \in Reqs |-> Null]
    /\ source = [r \in Reqs |-> "unknown"]
    /\ error = [r \in Reqs |-> ""]
    /\ status = [r \in Reqs |-> 0]
    /\ calls = [r \in Reqs |-> <<>>]
    /\ responses = [r \in Reqs |-> <<>>]
    /\ property_cache = {}
    /\ analyzer_queries = {}
    /\ query_errors = {}
    /\ NODE_ENV = "unread"
    /\ apiConfigured = "unread"
    /\ faults = 0
    /\ budget = 0
    /\ CalcIdle
    /\ QueryIdle
    /\ appPc = "arrived"
    /\ req \in Requests
    /\ ss_api_keys \in SUBSET Keys
    /\ keyLookup = "none"
    /\ res = NoResponse
    /\ ran = "none"
    /\ derived = [beds |-> Num(0), calculatedOccupancy |-> Num(0), params |-> NoParams]
    /\ DbIdle

AppNext == Auth \/ Route \/ DeriveParams

AppSpec == AppInit /\ [][AppNext]_vars

\* ------------------------------------------------------ getPool of db.js
DatabaseUrls == {"postgres://a", "postgres://b"}

\* a pool variable that every call finds unset
PoolAlwaysUnset(p) == TRUE

\* !pool
PoolUnset(p) == p = NoPool

\* db.js lines 17-95: one call of getPool, from the test of pool to the return
\* or the throw
GetPool ==
    /\ Len(getPoolCalls) < MaxPoolCalls
    /\ IF PoolUnset(pool)
       THEN IF DATABASE_URL = ""
            THEN /\ getPoolCalls' = Append(getPoolCalls,
                        [threw |-> TRUE, returned |-> NoPool, url |-> DATABASE_URL])
                 /\ UNCHANGED <<pool, poolsCreated>>
            ELSE /\ pool' = [id |-> poolsCreated + 1, connectionString |-> DATABASE_URL]
                 /\ poolsCreated' = poolsCreated + 1
                 /\ getPoolCalls' = Append(getPoolCalls,
                        [threw |-> FALSE, returned |-> pool', url |-> DATABASE_URL])
       ELSE /\ getPoolCalls' = Append(getPoolCalls,
                   [threw |-> FALSE, returned |-> pool, url |-> DATABASE_URL])
            /\ UNCHANGED <<pool, poolsCreated>>
    /\ UNCHANGED <<DATABASE_URL, handler, calc, app>>

\* the environment of the process changes between two calls: dotenv or the
\* process manager defines the variable, or it is deleted
SetDatabaseUrl ==
    /\ \E u \in DatabaseUrls \cup {""} :
        /\ u # DATABASE_URL
        /\ DATABASE_URL' = u
    /\ UNCHANGED <<pool, poolsCreated, getPoolCalls, handler, calc, app>>

\* the module just loaded, in any environment
PoolInit ==
    /\ pc = [r \in Reqs |-> "idle"]
    /\ address = [r \in Reqs |-> ""]
    /\ queryId = [r \in Reqs |-> NoQueryId]
    /\ rawExternalResponse = [r \in Reqs |-> Null]
    /\ source = [r \in Reqs |-> "unknown"]
    /\ error = [r \in Reqs |-> ""]
    /\ status = [r \in Reqs |-> 0]
    /\ calls = [r \in Reqs |-> <<>>]
    /\ responses = [r \in Reqs |-> <<>>]
    /\ property_cache = {}
    /\ analyzer_queries = {}
    /\ query_errors = {}
    /\ NODE_ENV = "unread"
    /\ apiConfigured = "unread"
    /\ faults = 0
    /\ budget = 0
    /\ CalcIdle
    /\ QueryIdle
    /\ AppIdle
    /\ pool = NoPool
    /\ poolsCreated = 0
    /\ DATABASE_URL \in DatabaseUrls \cup {""}
    /\ getPoolCalls = <<>>

PoolNext == GetPool \/ SetDatabaseUrl

PoolSpec == PoolInit /\ [][PoolNext]_vars

\* ------------------------------------------------- vocabulary of the claims
Done(r) == pc[r] = "done"
Response(r) == responses[r][1]
Events(r, op) == {i \in 1..Len(calls[r]) : calls[r][i].op = op}
Outcomes(r, op) == {calls[r][i].result : i \in Events(r, op)}
LookupHit(r) == "hit" \in Outcomes(r, "select property_cache")
LookupFailed(r) == "failed" \in Outcomes(r, "select property_cache")
Fetched(r) == Events(r, "fetch provider") # {}
FetchedComplete(r) ==
    "ok" \in Outcomes(r, "fetch provider") /\ rawExternalResponse[r] = Body(GoodShape, r)
SaveFailed(r) == "failed" \in Outcomes(r, "upsert property_cache")
Succeeded(r) ==
    /\ Done(r)
    /\ responses[r] =
           <<Result(TRUE, MsgCompleted, 0, source[r], rawExternalResponse[r], NoDetails)>>

\* C1: every row of property_cache holds a body that passes the structural
\* validation (a data object with property_details, property_statistics and
\* combined_market_info): a body that fails it is never inserted or written
\* over a row.
C1_CacheHoldsOnlyValidatedBodies ==
    \A row \in property_cache : StructurallyValid(row.raw_api_response)

\* C2: a request whose cache lookup returned a row inside the freshness window
\* issues no provider fetch, and the body it works on is the stored one.
C2_NoFetchAfterCacheHit ==
    \A r \in Reqs : LookupHit(r) => ~Fetched(r) /\ pc[r] # "fetch"

\* C3: the source tag of a successful result is `cache` exactly when the stored
\* body was used, `api` exactly when the lookup succeeded and the provider was
\* fetched, and `api_due_to_cache_error` exactly when the lookup failed and the
\* provider was fetched.
C3_SourceTagRecordsOrigin ==
    \A r \in Reqs :
        Done(r) /\ Response(r).success =>
            /\ Response(r).source = "cache" <=> LookupHit(r) /\ ~Fetched(r)
            /\ Response(r).source = "api" <=> ~LookupFailed(r) /\ Fetched(r)
            /\ Response(r).source = "api_due_to_cache_error" <=> LookupFailed(r) /\ Fetched(r)

\* C4: a request whose cache lookup failed goes on to the provider (it calls
\* it, or finds it not configured) instead of failing on the lookup, and when
\* the fetch returned a complete body it answers success:true with that body:
\* nothing of the cache failure is in the answer.
C4_CacheCheckFailureNotFatal ==
    \A r \in Reqs :
        Done(r) /\ LookupFailed(r) =>
            /\ Fetched(r) \/ error[r] = ErrNotConfigured
            /\ FetchedComplete(r) => Succeeded(r)

C4_Witness ==
    \E r \in Reqs : Done(r) /\ LookupFailed(r) /\ FetchedComplete(r) /\ Response(r).success

\* C5: a request whose provider fetch returned a complete body and whose cache
\* upsert failed answers success:true with the body it fetched itself.
C5_CacheSaveFailureNotFatal ==
    \A r \in Reqs :
        Done(r) /\ SaveFailed(r) /\ FetchedComplete(r) =>
            Succeeded(r) /\ Response(r).payload.call = r

C5_Witness ==
    \E r \in Reqs :
        /\ Done(r) /\ SaveFailed(r) /\ FetchedComplete(r)
        /\ Response(r).success /\ Response(r).payload.call = r
        /\ property_cache = {}

Messages ==
    {MsgAddressRequired, MsgProviderError, MsgDataFormat, MsgNoDetails, MsgInternal,
     MsgCompleted}

\* C6: whatever fails (query log, cache, provider, webhook, error log), a
\* request sends at most one result, a request that has returned has sent
\* exactly one, with a success flag and a message, and a request that has not
\* returned has sent none; no request ends by an exception leaving the handler.
C6_ExactlyOneResult ==
    \A r \in Reqs :
        /\ Len(responses[r]) = (IF Done(r) THEN 1 ELSE 0)
        /\ Done(r) => Response(r).success \in BOOLEAN /\ Response(r).message \in Messages
        /\ pc[r] # "unhandled"

C6_Witness ==
    \E r \in Reqs :
        /\ Done(r) /\ Len(responses[r]) = 1
        /\ "failed" \in Outcomes(r, "insert analyzer_queries")
        /\ LookupFailed(r)
        /\ "rejected" \in Outcomes(r, "alert")
        /\ "failed" \in Outcomes(r, "insert query_errors")

\* C7: every request that has started and not yet returned can take a step:
\* no request waits for ever on the provider or on the alert webhook.
C7_NoRequestWaitsForEver ==
    \A r \in Reqs : pc[r] \in {"idle", "done"} \/ ENABLED Step(r)

\* C8: a request whose provider fetch threw (transport failure) ends as one
\* whose provider answered non-2xx: the provider-unavailable message, and
\* error rows classified as a provider fetch error.
C8_TransportFailureEndsAsNon2xx ==
    \A r \in Reqs :
        Done(r) /\ Outcomes(r, "fetch provider") \cap {"threw", "non2xx"} # {} =>
            /\ ~Response(r).success
            /\ Response(r).message = MsgProviderError
            /\ Response(r).errorDetails = NoDetails
            /\ \A i \in Events(r, "insert query_errors") :
                   calls[r][i].arg = "EXTERNAL_FETCH_ERROR"

\* C9: a request calls the provider at most once, and a request whose call
\* failed (non-2xx, transport failure, unparsable body) never calls it again
\* and, when it returns, returns a failure.
C9_AtMostOneProviderCall ==
    \A r \in Reqs :
        /\ Cardinality(Events(r, "fetch provider")) <= 1
        /\ Outcomes(r, "fetch provider") \cap {"threw", "non2xx", "badjson"} # {} =>
               /\ pc[r] \in {"catch", "fetchError", "blocked", "done"}
               /\ Done(r) => ~Response(r).success

C9_Witness ==
    \E r \in Reqs :
        /\ Done(r) /\ ~Response(r).success
        /\ "threw" \in Outcomes(r, "fetch provider")
        /\ Cardinality(Events(r, "fetch provider")) = 1

\* C10: a request with a missing or empty address has returned as soon as it
\* is received, with success:false and the address-required message, and has
\* made no downstream call: no query-log row, no cache lookup or write, no
\* provider fetch, no alert, no error row.
C10_MissingAddressRejectedAtOnce ==
    \A r \in Reqs :
        pc[r] # "idle" /\ address[r] = "" =>
            /\ Done(r)
            /\ responses[r] = <<Result(FALSE, MsgAddressRequired, 0, "", Null, NoDetails)>>
            /\ calls[r] = <<Ev("respond", "", "")>>
            /\ \A row \in analyzer_queries : row.id # r

C10_Witness ==
    \E r \in Reqs :
        /\ pc[r] = "done" /\ address[r] = ""
        /\ Response(r).message = MsgAddressRequired

\* the request has called calculateRevenues: it is about to update the query
\* log, the calculation or the formatting threw, or it has answered success
ReachedCalculator(r) ==
    \/ pc[r] = "updateLog"
    \/ error[r] = ErrType
    \/ Done(r) /\ Response(r).success

\* the request holds a payload object that lacks `data` or one of the three
\* required sub-objects
HoldsMalformedPayload(r) ==
    ~Falsy(rawExternalResponse[r]) /\ ~StructurallyValid(rawExternalResponse[r])

\* C11: a request holding a payload that lacks property_details,
\* property_statistics or combined_market_info (or the whole data object), from
\* the cache or from a fetch, never reaches calculateRevenues, and when it
\* returns it has sent the data-format failure and nothing else.
C11_MalformedPayloadFailsBeforeCalculation ==
    \A r \in Reqs :
        HoldsMalformedPayload(r) =>
            /\ ~ReachedCalculator(r)
            /\ Done(r) =>
                   responses[r] =
                       <<Result(FALSE,
                                IF MissingMainData(rawExternalResponse[r])
                                THEN MsgDataFormat ELSE MsgNoDetails,
                                0, "", Null, NoDetails)>>

C11_Witness ==
    \E r \in Reqs :
        /\ Done(r) /\ HoldsMalformedPayload(r)
        /\ LookupHit(r) /\ ~Fetched(r)
        /\ Response(r).message = MsgNoDetails

C11_WitnessFetched ==
    \E r \in Reqs :
        /\ Done(r) /\ HoldsMalformedPayload(r) /\ Fetched(r)
        /\ Response(r).message = MsgNoDetails

\* C12: property_cache holds at most one row per address, whatever the
\* requests and however they interleave: a write for an address that has a
\* row replaces the row.
C12_OneEntryPerAddress ==
    \A x, y \in property_cache : x.address = y.address => x = y

\* two requests have both written the same address, and one row is there
C12_Witness ==
    \E r, q \in Reqs :
        /\ r # q /\ address[r] = address[q]
        /\ "ok" \in Outcomes(r, "upsert property_cache")
        /\ "ok" \in Outcomes(q, "upsert property_cache")
        /\ Cardinality(property_cache) = 1

\* ages, in days, inside the window of the specification: now - lastFetched < 30
YoungerThanWindow == {ToString(t) : t \in 0..(cacheExpirationDays - 1)}

\* C13: a lookup that ran returns the stored row exactly when the row's age is
\* under 30 days: a row aged exactly 30 days or more is a miss.
C13_ReusedIffYoungerThan30Days ==
    \A r \in Reqs : \A i \in Events(r, "select property_cache") :
        calls[r][i].result # "failed" =>
            (calls[r][i].result = "hit" <=> calls[r][i].arg \in YoungerThanWindow)

\* body p is, whole, the body one provider call for address a returned
WholeBodyOfOneCall(p, a) ==
    \E q \in Reqs :
        /\ address[q] = a
        /\ "ok" \in Outcomes(q, "fetch provider")
        /\ p = rawExternalResponse[q]

\* C14: with requests for one address interleaving between cache check and
\* cache write, the row of the address is always the whole body returned by
\* one provider call for that address, never a mixture of two bodies, and a
\* request that answers success returns such a whole, complete body: the
\* races cost a second fetch or an overwrite and nothing else.
C14_RacesNeverCorruptTheCache ==
    /\ \A row \in property_cache :
           WholeBodyOfOneCall(row.raw_api_response, row.address)
    /\ \A r \in Reqs :
           Done(r) /\ Response(r).success =>
               /\ WholeBodyOfOneCall(Response(r).payload, address[r])
               /\ Response(r).payload.shape = GoodShape

\* both requests missed, both fetched, both wrote, and both answered success
C14_Witness ==
    \E r, q \in Reqs :
        /\ r # q /\ address[r] = address[q]
        /\ \A x \in {r, q} :
               /\ "miss" \in Outcomes(x, "select property_cache")
               /\ "ok" \in Outcomes(x, "upsert property_cache")
               /\ Succeeded(x)
        /\ \E row \in property_cache : row.raw_api_response = rawExternalResponse[q]

\* C15: the result of a failed request depends on its terminal path only: it
\* carries neither the provider's status nor the caught error's message,
\* whatever NODE_ENV is.
C15_FailureResultsCarryNoErrorDetail ==
    \A r \in Reqs :
        Done(r) /\ ~Response(r).success =>
            /\ Response(r).status = 0
            /\ Response(r).errorDetails = NoDetails

Tiers == {"typical", "top25", "top10"}

\* figure f lies within one percent of the value v it was made from
WithinOnePercent(f, v) ==
    /\ f.value = v
    /\ LessEq(Rat(99, 100), f.times)
    /\ LessEq(f.times, Rat(101, 100))

\* C16: each projected_revenue_* of the response lies within [0.99v, 1.01v] of
\* its value v > 0 before the jitter: the figures calculateRevenues returned are
\* sent as they are.
C16_ResponseFiguresWithinOnePercent ==
    calcPc = "formatted" =>
        \A tier \in Tiers :
            Positive(calculated[tier]) =>
                /\ WithinOnePercent(formattedResponse[tier], calculated[tier])
                /\ formattedResponse[tier] = calculatedRevenues[tier]

\* C17: each figure calculateRevenues returns is, for a value v > 0 before the
\* jitter, within [0.99v, 1.01v], and for v <= 0 the value itself.
C17_JitterWithinOnePercent ==
    calcPc \in {"returned", "formatted"} =>
        \A tier \in Tiers :
            IF Positive(calculated[tier])
            THEN WithinOnePercent(calculatedRevenues[tier], calculated[tier])
            ELSE calculatedRevenues[tier] = Figure(calculated[tier], Num(1))

\* a negative figure passed through, two positive figures jittered by
\* different draws
C17_Witness ==
    /\ calcPc = "returned"
    /\ calculated.typical.n < 0
    /\ calculatedRevenues.typical = Figure(calculated.typical, Num(1))
    /\ Positive(calculated.top25) /\ calculated.top25 = calculated.top10
    /\ calculatedRevenues.top25.times = Rat(99, 100)
    /\ calculatedRevenues.top10.times # Rat(99, 100)

\* C18: for stats with revenue.ltm = r and cleaning_fee.ltm = c, whatever the
\* comps and the occupancy, the typical revenue before the jitter is r + c.
C18_TypicalIsRevenuePlusCleaning ==
    calcPc \notin {"off", "called"}
        /\ stats.revenue.t = "number" /\ stats.cleaning_fee.t = "number" =>
            calculated.typical = Plus(stats.revenue, stats.cleaning_fee)

C18_Witness ==
    /\ calcPc = "jitter"
    /\ stats.revenue = Num(1000) /\ stats.cleaning_fee = Num(100)
    /\ Positive(stats.occupancy) /\ Len(compsWithADR) > 1
    /\ calculated.typical = Num(1100)

\* no element of comps has adr.ltm > 0, or occupancy.ltm is missing or <= 0
NoTopTier ==
    \/ \A i \in 1..Len(comps) : ~Positive(comps[i].adr)
    \/ ~Positive(stats.occupancy)

\* C19: when no comp has adr.ltm > 0 (the empty list included) or the
\* occupancy is <= 0, calculateRevenues does not throw and returns top25 and
\* top10 equal to 0, unjittered.
C19_NoTopTierGivesZero ==
    calcPc \notin {"off", "called"} /\ NoTopTier =>
        /\ calcPc # "threw"
        /\ calculated.top25 = Num(0) /\ calculated.top10 = Num(0)
        /\ calcPc \in {"returned", "formatted"} =>
               /\ calculatedRevenues.top25 = Figure(Num(0), Num(1))
               /\ calculatedRevenues.top10 = Figure(Num(0), Num(1))

\* how many elements of list have ADR a
CountADR(list, a) == Cardinality({i \in 1..Len(list) : list[i].adr = a})

\* top holds k elements of all, and no element left out has a higher ADR
\* than an element of top
HighestOf(top, all, k) ==
    /\ Len(top) = k
    /\ \A i \in 1..Len(top) : CountADR(top, top[i].adr) <= CountADR(all, top[i].adr)
    /\ \A i \in 1..Len(all) :
           CountADR(top, all[i].adr) < CountADR(all, all[i].adr) =>
               \A j \in 1..Len(top) : LessEq(all[i].adr, top[j].adr)

\* C20: with n comps of positive ADR and occupancy > 0, top25Comps are the
\* max(1, ceil(0.25 n)) comps of highest ADR and top10Comps the
\* max(1, ceil(0.10 n)) comps of highest ADR, each size capped at n.
C20_TopSubsetsAreTheHighest ==
    calcPc \in {"jitter", "returned", "formatted"}
        /\ Len(Filter(comps)) > 0 /\ Positive(stats.occupancy) =>
            LET n == Len(Filter(comps))
            IN  /\ HighestOf(top25Comps, Filter(comps), Min(n, Max(1, (n + 3) \div 4)))
                /\ HighestOf(top10Comps, Filter(comps), Min(n, Max(1, (n + 9) \div 10)))

C20_Witness ==
    /\ calcPc = "jitter"
    /\ Positive(stats.occupancy)
    /\ Len(top10Comps) > 1
    /\ Len(top25Comps) > Len(top10Comps)
    /\ Len(compsWithADR) > Len(top25Comps)
    /\ comps # compsWithADR

\* value is (the arithmetic mean of the ADRs of subset) * occupancy * 365
\* + cleaning fee, stated without a division
MeanFormula(value, subset) ==
    /\ Len(subset) > 0
    /\ Times(Plus(value, Minus(OrZero(stats.cleaning_fee))), Num(Len(subset)))
           = Times(Times(SumADR(subset), stats.occupancy), Num(365))

\* C21: when at least one comp has positive ADR and the occupancy is > 0,
\* each top-tier revenue before the jitter equals (mean ADR of its subset)
\* * occupancyLTM * 365 + cleaningFeeLTM; revenue 1000, cleaning fee 100,
\* occupancy 0.5 and comp ADRs [300, 200, 100, 50] give typical 1100 and
\* top25 = top10 = 54850.
C21_TopTierIsMeanTimesOccupancyPlusCleaning ==
    calcPc \in {"jitter", "returned", "formatted"}
        /\ Len(Filter(comps)) > 0 /\ Positive(stats.occupancy) =>
            /\ MeanFormula(calculated.top25, top25Comps)
            /\ MeanFormula(calculated.top10, top10Comps)
            /\ stats = [revenue |-> Num(1000), cleaning_fee |-> Num(100),
                        occupancy |-> Rat(1, 2)] /\ comps = ExampleComps =>
                   calculated = [typical |-> Num(1100), top25 |-> Num(54850),
                                 top10 |-> Num(54850)]

C21_Witness ==
    /\ calcPc = "jitter"
    /\ comps = ExampleComps
    /\ stats = [revenue |-> Num(1000), cleaning_fee |-> Num(100),
                occupancy |-> Rat(1, 2)]
    /\ calculated.top25 = Num(54850)
    /\ Len(top25Comps) = 1

\* C22: calculateRevenues never raises, whatever the stats object and the
\* comps list: an absent revenue, cleaning fee or occupancy, a comp without
\* stats or adr and a null comp element are all treated as 0.
C22_CalculateRevenuesNeverRaises ==
    calcPc \notin {"off", "called"} =>
        /\ calcPc # "threw"
        /\ calculated.typical = Plus(OrZero(stats.revenue), OrZero(stats.cleaning_fee))

\* the figure of one tier that calculateRevenues returns for stats s and
\* comps list, with the draw random
ResultOf(s, list, tier, random) ==
    LET all == SortByADR(Filter(list))
        top(percent) ==
            IF Len(all) > 0 /\ Positive(OrZero(s.occupancy))
            THEN TopRevenue(SubSeq(all, 1, ActualNumTop(Len(all), percent)),
                            OrZero(s.occupancy), OrZero(s.cleaning_fee))
            ELSE Num(0)
    IN  applyRandomness(CASE tier = "typical" -> TypicalRevenue(s)
                          [] tier = "top25" -> top(25)
                          [] OTHER -> top(10),
                        random)

\* C23: calculateRevenues leaves the stats object and the comps list, its
\* elements and their order, as they were passed in, so that the response,
\* which carries that comps list, has the comps in the order of the payload;
\* and what it returns is determined by stats, comps and the three draws.
C23_CalculateRevenuesLeavesItsInputs ==
    /\ [][comps' = comps /\ stats' = stats]_vars
    /\ [](calcPc = "returned" =>
            \A tier \in Tiers : \E random \in Randoms :
                calculatedRevenues[tier] = ResultOf(stats, comps, tier, random))

C23_Witness ==
    /\ calcPc = "formatted"
    /\ comps = <<Comp(Num(200)), Comp(Num(300)), Comp(Num(200))>>
    /\ compsWithADR = <<Comp(Num(300)), Comp(Num(200)), Comp(Num(200))>>
    /\ Positive(stats.occupancy)

\* the result request r owes its caller, read from everything but the
\* outcomes of its alerts: the address, the outcome of the fetch, the error
\* thrown by the provider call, and the payload it holds
ExpectedResult(r) ==
    LET internal == Result(FALSE, MsgInternal, 0, "", Null, ErrorDetails(r, NODE_ENV))
        step == Process(rawExternalResponse[r])
    IN  IF address[r] = ""
        THEN Result(FALSE, MsgAddressRequired, 0, "", Null, NoDetails)
        ELSE IF "non2xx" \in Outcomes(r, "fetch provider")
        THEN Result(FALSE, MsgProviderError, status[r], "", Null, NoDetails)
        ELSE IF Outcomes(r, "fetch provider") \cap {"threw", "badjson"} # {}
                  \/ error[r] = ErrNotConfigured
        THEN internal
        ELSE CASE step = "badData" ->
                      Result(FALSE, MsgDataFormat, 0, "", Null, NoDetails)
               [] step = "missingSub" ->
                      Result(FALSE, MsgNoDetails, 0, "", Null, NoDetails)
               [] step = "catch" -> internal
               [] OTHER ->
                      Result(TRUE, MsgCompleted, 0,
                             IF "ok" \in Outcomes(r, "fetch provider")
                             THEN "api" ELSE "cache",
                             rawExternalResponse[r], NoDetails)

\* C24: an alert that is not delivered (the webhook answers non-OK, or the
\* call to it fails) is swallowed: sendAlertToN8n does not throw, and the
\* caller gets the result it would get had the alert been delivered.
C24_UndeliveredAlertIsSwallowed ==
    \A r \in Reqs :
        /\ Done(r) => Response(r) = ExpectedResult(r)
        /\ pc[r] = "catch" => error[r] # ""

C24_Witness ==
    \E r \in Reqs :
        /\ Done(r)
        /\ Response(r).success
        /\ Outcomes(r, "alert") = {"rejected"}
        /\ Cardinality(Events(r, "alert")) >= 2

\* an alert of the given subject is sent by request r after its event k and
\* before each of its responses
AlertedBeforeResponse(r, k, subjects) ==
    \A j \in Events(r, "respond") :
        \E i \in Events(r, "alert") : k < i /\ i < j /\ calls[r][i].arg \in subjects

\* request r has found the payload it holds, taken from the cache or from
\* the provider, to lack data or one of the three required sub-objects
FoundMalformed(r) ==
    /\ \/ "ok" \in Outcomes(r, "fetch provider")
       \/ LookupHit(r) /\ ~Falsy(rawExternalResponse[r])
    /\ Process(rawExternalResponse[r]) \in {"badData", "missingSub"}

\* C25: a request in which the cache check fails, the provider fetch fails
\* (non-2xx, transport failure or unreadable body), the payload is malformed
\* or the cache write fails sends an alert for that condition to the webhook
\* before it sends its response.
C25_AlertPrecedesResponse ==
    \A r \in Reqs :
        /\ \A k \in Events(r, "select property_cache") :
               calls[r][k].result = "failed" =>
                   AlertedBeforeResponse(r, k, {"Cache Check Error"})
        /\ \A k \in Events(r, "fetch provider") :
               /\ calls[r][k].result = "non2xx" =>
                      AlertedBeforeResponse(r, k, {"External API Error"})
               /\ calls[r][k].result \in {"threw", "badjson"} =>
                      AlertedBeforeResponse(r, k, {"Internal API Error"})
        /\ \A k \in Events(r, "upsert property_cache") :
               calls[r][k].result = "failed" =>
                   AlertedBeforeResponse(r, k, {"Cache Save Error"})
        /\ FoundMalformed(r) =>
               AlertedBeforeResponse(r, 0, {"Unexpected External Data"})

C25_Witness ==
    \E r \in Reqs :
        /\ Done(r)
        /\ LookupFailed(r)
        /\ SaveFailed(r)
        /\ FoundMalformed(r)
        /\ Cardinality(Events(r, "alert")) = 3

\* the request names a key that the key store holds
HoldsStoredKey == req.key # NoKey /\ req.key \in ss_api_keys

\* C26: no route handler other than /health runs for a request unless the
\* auth middleware has found the request's x-api-key in the key store: a
\* missing key, an unknown key or a failure of the key store ends the request
\* in the middleware, and /health is answered without a key lookup.
C26_HandlersRunOnlyBehindAuth ==
    /\ ran \notin {"none", "health"} => keyLookup = "found" /\ HoldsStoredKey
    /\ ran = "health" => req.path = "/health"
    /\ req.path # "/health" /\ (~HoldsStoredKey \/ keyLookup = "error") =>
           /\ ran = "none"
           /\ appPc \in {"arrived", "answered"}
           /\ appPc = "answered" => res.status \in {401, 403, 500}
    /\ req.path = "/health" => keyLookup = "none" /\ res.status \in {0, 200}

C26_Witness ==
    /\ ran = "property"
    /\ appPc = "fetching"
    /\ keyLookup = "found"
    /\ ss_api_keys = {req.key}

\* C27: a request to a protected endpoint whose API key is missing or invalid
\* is answered 401 Unauthorized.
C27_MissingOrInvalidKeyGets401 ==
    req.path # "/health" /\ ~HoldsStoredKey /\ keyLookup # "error"
        /\ appPc = "answered" => res.status = 401

\* C28 as the specification words it: the estimate is bedrooms * 2 when the
\* occupancy is absent and bedrooms is given and > 0, and 0 otherwise; an
\* estimate of 0 is not sent.
C28_EstimateIsZeroOtherwise ==
    appPc = "fetching" =>
        /\ derived.calculatedOccupancy =
               IF req.body.occupancy = Undefined /\ Positive(req.body.bedrooms)
               THEN Times(req.body.bedrooms, Num(2)) ELSE Num(0)
        /\ derived.calculatedOccupancy = Num(0) =>
               derived.params.accommodates = Undefined

\* C28: with beds the integer part of bedrooms (0 when bedrooms is absent),
\* the estimate is beds * 2 when the occupancy is absent or 0 and beds > 0;
\* otherwise it is the integer part of the occupancy the request gave (0 when
\* absent); an estimate that is not > 0 is not sent to the provider, any
\* other is sent as accommodates.
C28_EstimateFromBedroomsOrGivenOccupancy ==
    appPc = "fetching" =>
        LET beds == ParseIntOrZero(req.body.bedrooms)
            given == ParseIntOrZero(req.body.occupancy)
            estimate == derived.calculatedOccupancy
        IN  /\ given = Num(0) /\ Positive(beds) => estimate = Plus(beds, beds)
            /\ given = Num(0) /\ ~Positive(beds) => estimate = Num(0)
            /\ given # Num(0) => estimate = given
            /\ derived.params.accommodates =
                   IF Positive(estimate) THEN estimate ELSE Undefined

C28_Witness ==
    /\ appPc = "fetching"
    /\ req.body.bedrooms = Rat(5, 2)
    /\ req.body.occupancy = Num(3)
    /\ derived.calculatedOccupancy = Num(3)
    /\ derived.params.accommodates = Num(3)

\* request r took its payload from the cache and went on with it
EndsInHit(r) ==
    LookupHit(r) /\ ~Fetched(r) /\ ~Falsy(rawExternalResponse[r])

\* the provider call of request r failed: non-2xx answer, transport failure
\* or unreadable body
FetchFailed(r) ==
    Outcomes(r, "fetch provider") \cap {"non2xx", "threw", "badjson"} # {}

\* C29: a request that ends in a cache hit and a request whose provider fetch
\* fails leave property_cache as it is: none of their steps inserts a row or
\* changes the payload or the age of a row, and they send no upsert (a hit
\* does not refresh last_fetched).
C29_HitAndFailedFetchLeaveTheCache ==
    [][\A r \in Reqs :
          (EndsInHit(r) \/ FetchFailed(r))' =>
              /\ pc'[r] # pc[r] => property_cache' = property_cache
              /\ (Events(r, "upsert property_cache") = {})']_vars

C29_Witness ==
    \E r \in Reqs :
        /\ Succeeded(r)
        /\ EndsInHit(r)
        /\ \E row \in property_cache :
               /\ row.address = address[r]
               /\ row.age = cacheExpirationDays
               /\ row.raw_api_response = rawExternalResponse[r]

\* the ages, as the lookup logs them, of a row that is older than the window
StaleAges == {ToString(t) : t \in (cacheExpirationDays + 1)..MaxAge}

\* C30: the cache is read by address alone: whatever bedrooms, bathrooms and
\* occupancy a request carries, its lookup misses only when its address has
\* no row or a row past the window, a hit hands it the payload stored for
\* its address, fetched by an earlier call, and its own parameters reach
\* the provider only when it fetches.
C30_HitPayloadIgnoresParameters ==
    \A r \in Reqs :
        /\ \A k \in Events(r, "select property_cache") :
               calls[r][k].result = "miss" =>
                   calls[r][k].arg \in {"none"} \cup StaleAges
        /\ EndsInHit(r) =>
               /\ rawExternalResponse[r].call # r
               /\ params[r] = NoParams
               /\ \E row \in property_cache :
                      /\ row.address = address[r]
                      /\ row.raw_api_response = rawExternalResponse[r]
               /\ Done(r) /\ Response(r).success =>
                      Response(r).payload = rawExternalResponse[r]
        /\ Fetched(r) => params[r] = ProviderParams(reqBody[r])

C30_Witness ==
    \E r \in Reqs :
        /\ Succeeded(r)
        /\ EndsInHit(r)
        /\ reqBody[r] = TwoBedrooms
        /\ ProviderParams(reqBody[r]) # NoParams
        /\ Response(r).payload = Body(GoodShape, PriorCall)

\* the rows of analyzer_queries that request r inserted
QueryRows(r) == {row \in analyzer_queries : row.id = r}

\* C31: the query-log row of a request is created with query_success =
\* FALSE; it is TRUE only when the request that inserted it passed the
\* validation of its payload and the calculation and its UPDATE succeeded,
\* and that UPDATE is issued before the success response; a request that
\* ends in a failure leaves its row FALSE, and a failed UPDATE leaves the
\* response a success.
C31_QueryLogMarksSuccessOnly ==
    \A r \in Reqs :
        /\ QueryRows(r) # {} <=> "ok" \in Outcomes(r, "insert analyzer_queries")
        /\ \A row \in QueryRows(r) :
               row.query_success <=> "ok" \in Outcomes(r, "update analyzer_queries")
        /\ \A k \in Events(r, "update analyzer_queries") :
               /\ queryId[r] = r
               /\ error[r] = ""
               /\ Process(rawExternalResponse[r]) = "updateLog"
               /\ \A j \in Events(r, "respond") : k < j
               /\ Done(r) => Response(r).success
        /\ Done(r) /\ ~Response(r).success =>
               \A row \in QueryRows(r) : ~row.query_success
        /\ Done(r) /\ Response(r).success /\ queryId[r] # NoQueryId =>
               Events(r, "update analyzer_queries") # {}

C31_Witness ==
    \E r \in Reqs :
        /\ Done(r)
        /\ Response(r).success
        /\ Outcomes(r, "update analyzer_queries") = {"failed"}
        /\ QueryRows(r) = {[id |-> r, address |-> address[r], query_success |-> FALSE]}

\* the initial INSERT of request r failed
InsertFailed(r) == "failed" \in Outcomes(r, "insert analyzer_queries")

\* C32: when the initial query-log INSERT fails the analysis goes on with a
\* null queryId and gives the caller the result it would give after a
\* successful INSERT; no UPDATE of the query log is issued, and every error
\* record written afterwards carries a null query_id.
C32_FailedQueryLogInsertChangesNothing ==
    \A r \in Reqs :
        InsertFailed(r) =>
            /\ queryId[r] = NoQueryId
            /\ QueryRows(r) = {}
            /\ Events(r, "update analyzer_queries") = {}
            /\ pc[r] = "catch" => Events(r, "select property_cache") # {}
            /\ Done(r) => /\ Response(r) = ExpectedResult(r)
                           /\ Events(r, "select property_cache") # {}
            /\ (\A q \in Reqs \ {r} : pc[q] = "idle") =>
                   \A row \in query_errors : row.query_id = NoQueryId

C32_Witness ==
    \E r \in Reqs :
        /\ Done(r)
        /\ InsertFailed(r)
        /\ \E row \in query_errors : row.query_id = NoQueryId /\ row.address = address[r]
        /\ Response(r).message = MsgDataFormat

\* C33: for every input with at least one comp of positive ADR and an
\* occupancy > 0, top10Comps is a prefix of top25Comps in the order of
\* descending ADR, and the top10 revenue before the jitter is greater than
\* or equal to the top25 revenue before the jitter.
C33_Top10AtLeastTop25 ==
    calcPc \in {"jitter", "returned", "formatted"}
        /\ Len(Filter(comps)) > 0 /\ Positive(stats.occupancy) =>
            /\ Len(top10Comps) <= Len(top25Comps)
            /\ top10Comps = SubSeq(top25Comps, 1, Len(top10Comps))
            /\ LessEq(calculated.top25, calculated.top10)

\* the calls of getPool that returned
Returned == {i \in 1..Len(getPoolCalls) : ~getPoolCalls[i].threw}

\* C34: after any sequence of getPool calls at most one pool has been
\* created and every call that returned gave that one instance; a call made
\* while DATABASE_URL is missing and no pool exists throws and leaves the
\* pool unset, and the first later call with the variable set creates it.
C34_OnePoolLazilyCreated ==
    /\ poolsCreated <= 1
    /\ poolsCreated = 0 <=> pool = NoPool
    /\ \A i \in Returned : getPoolCalls[i].returned = pool /\ pool # NoPool
    /\ Returned = {} <=> pool = NoPool
    /\ \A i \in 1..Len(getPoolCalls) :
           getPoolCalls[i].threw <=>
               getPoolCalls[i].url = "" /\ (\A j \in Returned : i < j)
    /\ \A i \in Returned :
           (\A j \in Returned : i <= j) =>
               getPoolCalls[i].url # "" /\ pool.connectionString = getPoolCalls[i].url

C34_Witness ==
    /\ Len(getPoolCalls) = MaxPoolCalls
    /\ getPoolCalls[1].threw
    /\ Returned = 2..MaxPoolCalls
    /\ getPoolCalls[3].url = ""
    /\ getPoolCalls[MaxPoolCalls].url \notin {"", pool.connectionString}
    /\ poolsCreated = 1

====
